---- MODULE Spec2Model ----
(***************************************************************************)
(* A model of convert2nwbpClamp.py and localFunctions.py: the conversion   *)
(* of one patch-clamp session (a flat list of labelled sweeps) into runs,  *)
(* per-sweep stimulus/response series and the four grouping tables.        *)
(*                                                                         *)
(* Python arrays are 0-based; the sequences below are 1-based, and At      *)
(* reads one at a 0-based index.  A sweep label is modelled by its leading *)
(* character, the only part of it the code reads.  The tables of the NWB   *)
(* file object are modelled as the sequences of rows the script adds; an   *)
(* add_* call returns the 0-based index of the row it added.               *)
(***************************************************************************)
EXTENDS Integers, Sequences, FiniteSets, TLC

\* ---------------------------------------------------------------- bounds
MaxSweeps == 3
LongLen == 110

\* ---------------------------------------------------------------- helpers
At(a, i) == a[i + 1]

Range(s) == {s[i] : i \in DOMAIN s}

RECURSIVE SetToSortedSeq(_)
SetToSortedSeq(S) ==
  IF S = {} THEN << >>
  ELSE LET m == CHOOSE x \in S : \A y \in S : x <= y
       IN  <<m>> \o SetToSortedSeq(S \ {m})

\* ---------------------------------------------------------------- inputs
LabelChars == {"1", "0", "b", "x"}
StateCodes == {0, 1, 2, 9, 5}
IdBases == {0, 41}

SmallSessions ==
  UNION {[labels : [1..n -> LabelChars], states : [1..n -> StateCodes]] :
           n \in 2..MaxSweeps}

\* The scenario of the run segmenter: six sweeps, light stimulation only.
ScenarioSession ==
  [labels |-> <<"1", "1", "b", "0", "0", "1">>,
   states |-> <<0, 0, 0, 0, 0, 0>>]

\* The session design the hard-coded grouping lists describe: baseline,
\* break, plasticity induction, break, baseline.
DesignSession ==
  [labels |-> <<"1", "1", "1", "b", "b", "0", "0", "0", "b", "b", "1", "1", "1">>,
   states |-> <<0, 1, 0, 9, 9, 2, 2, 2, 9, 9, 0, 1, 0>>]

\* Two runs of two and three sweeps, under every assignment of state codes.
TwoRunSessions ==
  [labels : {<<"1", "1", "b", "b", "b">>}, states : [1..5 -> StateCodes]]

\* A long session cycling through the three kinds in blocks of four sweeps.
LongLabel(p) ==
  IF (p \div 4) % 3 = 0 THEN "1" ELSE IF (p \div 4) % 3 = 1 THEN "b" ELSE "0"
LongState(p) ==
  IF (p \div 4) % 3 = 0 THEN p % 2 ELSE IF (p \div 4) % 3 = 1 THEN 9 ELSE 2
LongSession ==
  [labels |-> [k \in 1..LongLen |-> LongLabel(k - 1)],
   states |-> [k \in 1..LongLen |-> LongState(k - 1)]]

Sessions ==
  SmallSessions \cup TwoRunSessions \cup {ScenarioSession, DesignSession, LongSession}

\* data['values'][:,sweep]: one sample per sweep stands for the column
values(sweep) == sweep + 1
\* frameinfo 'points' and 'start': uniform point counts, 5 s between sweeps
sweepDataPoints(sweep) == 4
sweepStartTimes(sweep) == 5 * sweep

\* A scale factor m * 10^e, and its product with an integer sample
vcScaleFactor == [mant |-> 1, exp |-> -13]
ccScaleFactor == [mant |-> 25, exp |-> -7]
Scale(x, f) == [mant |-> x * f.mant, exp |-> f.exp]

VARIABLES
  sweepLabels, sweepStates, sweepIDs,   \* the loaded frameinfo columns
  pc,                                   \* the script's position
  error,                                \* the exception that ended it
  runs, runUnits, runInds,              \* getRuns' result, then [first,last] rows
  runStartTimes, runDataPoints,
  nRuns,
  sweep,                                \* the series loop's index
  stimulusObjects, responseObjects,
  rowIndices, rowIndicesSimRec,
  simRecs, seqRecs, repetitions, conditions,   \* the grouping tables
  iRun, stimulusType, seqGroupCount,
  written                               \* the output file exists

vars == <<sweepLabels, sweepStates, sweepIDs, pc, error, runs, runUnits, runInds,
          runStartTimes, runDataPoints, nRuns, sweep, stimulusObjects,
          responseObjects, rowIndices, rowIndicesSimRec, simRecs, seqRecs,
          repetitions, conditions, iRun, stimulusType, seqGroupCount, written>>

nSweeps == Len(sweepIDs)

Init ==
  \E s \in Sessions, b \in IdBases :
    /\ sweepLabels = s.labels
    /\ sweepStates = s.states
    /\ sweepIDs = [k \in 1..Len(s.labels) |-> b + k]
    /\ pc = "getRuns"
    /\ error = "none"
    /\ runs = << >> /\ runUnits = << >> /\ runInds = << >>
    /\ runStartTimes = << >> /\ runDataPoints = << >>
    /\ nRuns = 0
    /\ sweep = 0
    /\ stimulusObjects = << >> /\ responseObjects = << >>
    /\ rowIndices = << >> /\ rowIndicesSimRec = << >>
    /\ simRecs = << >> /\ seqRecs = << >>
    /\ repetitions = << >> /\ conditions = << >>
    /\ iRun = 0
    /\ stimulusType = "unset"
    /\ seqGroupCount = 0
    /\ written = FALSE

\* ---------------------------------------------------------------- getRuns
\* One pass of the loop body of getRuns for index s, on the accumulated result.
getRunsStep(labels, acc, s) ==
  IF At(labels, s) = At(labels, s - 1) THEN acc
  ELSE LET c == At(labels, s)
           r == IF c = "b" THEN Append(acc.runs, "break")
                ELSE IF c = "0" THEN Append(acc.runs, "plasticity")
                ELSE IF c = "1" THEN Append(acc.runs, "baseline")
                ELSE acc.runs
           u == IF c = "b" THEN Append(acc.units, "amperes")
                ELSE IF c = "0" THEN Append(acc.units, "volts")
                ELSE IF c = "1" THEN Append(acc.units, "amperes")
                ELSE acc.units
       IN  [runs |-> r, units |-> u,
            inds |-> Append(acc.inds, s),
            dataPoints |-> Append(acc.dataPoints, sweepDataPoints(s)),
            startTimes |-> Append(acc.startTimes, sweepStartTimes(s))]

\* The last index (exclusive) of the loop of getRuns: range(1, size-1)
getRunsStop(labels) == Len(labels) - 1

\* The loop of getRuns from index lo up to (not including) hi, in order.  The
\* range is halved, and the left half evaluated first (inds is never empty),
\* so that long sessions do not nest deeply.
RECURSIVE getRunsLoop(_, _, _, _)
getRunsLoop(labels, acc, lo, hi) ==
  IF lo >= hi THEN acc
  ELSE IF hi = lo + 1 THEN getRunsStep(labels, acc, lo)
  ELSE LET mid == (lo + hi) \div 2
           left == getRunsLoop(labels, acc, lo, mid)
       IN  IF Len(left.inds) > 0 THEN getRunsLoop(labels, left, mid, hi) ELSE left

getRuns(labels) ==
  getRunsLoop(labels,
              [runs |-> <<"baseline">>, units |-> <<"amperes">>,
               inds |-> <<0>>,
               dataPoints |-> <<sweepDataPoints(0)>>,
               startTimes |-> <<sweepStartTimes(0)>>],
              1, getRunsStop(labels))

endRunIndsNoOffset(inds, n) == [k \in 1..Len(inds) |-> (Tail(inds) \o <<n>>)[k]]

\* endRunInds = concatenate(runInds[1:], [nSweeps]) - 1
endRunInds(inds, n) == [k \in 1..Len(inds) |-> (Tail(inds) \o <<n>>)[k] - 1]

\* runInds = concatenate(inds column, endRunInds column): rows [first, last]
runIndsRows(inds, n) == [k \in 1..Len(inds) |-> <<inds[k], endRunInds(inds, n)[k]>>]

SegmentRuns ==
  /\ pc = "getRuns"
  /\ LET g == getRuns(sweepLabels)
     IN  /\ runs' = g.runs
         /\ runUnits' = g.units
         /\ runStartTimes' = g.startTimes
         /\ runDataPoints' = g.dataPoints
         /\ nRuns' = Len(g.runs)
         /\ runInds' = runIndsRows(g.inds, nSweeps)
  /\ sweep' = 0
  /\ pc' = "series"
  /\ UNCHANGED <<sweepLabels, sweepStates, sweepIDs, error, stimulusObjects,
                 responseObjects, rowIndices, rowIndicesSimRec, simRecs, seqRecs,
                 repetitions, conditions, iRun, stimulusType, seqGroupCount, written>>

\* ---------------------------------------------------------------- series
Digit(d) == <<"0", "1", "2", "3", "4", "5", "6", "7", "8", "9">>[d + 1]

\* str(n) of a non-negative integer
RECURSIVE str(_)
str(n) == IF n < 10 THEN Digit(n) ELSE str(n \div 10) \o Digit(n % 10)

prefixOffByOne(order) == IF order <= 10 THEN "00" ELSE IF order <= 100 THEN "0" ELSE ""

\* The zero prefix both series builders compute from sweepOrder[0]
prefix(order) == IF order < 10 THEN "00" ELSE IF order < 100 THEN "0" ELSE ""

seriesName(order) == "PatchClampSeries" \o prefix(order) \o str(order)

\* The description pair setVClampSeries selects; "unbound" where no branch
\* assigns the local variable.
vcDescription(condition, stimState) ==
  IF condition = "baseline" THEN
    IF stimState = 0 THEN
      [description |-> "Baseline condition: Light stimulation",
       stimDescription |-> "Baseline stimulation: Double light pulses."]
    ELSE IF stimState = 1 THEN
      [description |-> "Baseline condition: Current stimulation",
       stimDescription |-> "Baseline stimulation: Double current pulses."]
    ELSE [description |-> "unbound", stimDescription |-> "unbound"]
  ELSE IF condition = "break" THEN
    [description |-> "Break sweeps are used while switching between two conditions: Nothing happens.",
     stimDescription |-> "No stimulation."]
  ELSE [description |-> "unbound", stimDescription |-> "unbound"]

\* setVClampSeries: the (stimulus, response) pair, or the exception raised
\* when the stimulus series reads the unassigned description.
setVClampSeries(input) ==
  LET d == vcDescription(input.condition, input.stimState)
      name == seriesName(input.sweepOrder[1])
      common == [name |-> name, description |-> d.description, data |-> input.data,
                 gain |-> 1, stimulus_description |-> d.stimDescription,
                 starting_time |-> input.startTime,
                 sweep_number |-> input.sweepOrder[2]]
  IN  IF d.description = "unbound" THEN [raised |-> "UnboundLocalError"]
      ELSE [raised |-> "none",
            stimulus |-> [type |-> "VoltageClampStimulusSeries", unit |-> "volts"] @@ common,
            response |-> [type |-> "VoltageClampSeries", unit |-> input.unit] @@ common]

\* setCClampSeries: the (stimulus, response) pair
setCClampSeries(input) ==
  LET name == seriesName(input.sweepOrder[1])
      common == [name |-> name, description |-> "Plasticity condition",
                 data |-> input.data, gain |-> 1,
                 stimulus_description |->
                   "Plasticity protocol: Simultaneous current and light stimulation",
                 starting_time |-> input.startTime,
                 sweep_number |-> input.sweepOrder[2]]
  IN  [raised |-> "none",
       stimulus |-> [type |-> "CurrentClampStimulusSeries", unit |-> "amperes"] @@ common,
       response |-> [type |-> "CurrentClampSeries", unit |-> input.unit] @@ common]

\* np.where(runInds[:,0] <= sweep <= runInds[:,1])[0][0]: the 0-based index of
\* the first row whose range holds the sweep, -1 when there is none
runLookup(rows, s) ==
  LET hits == {k \in 1..Len(rows) : rows[k][1] <= s /\ s <= rows[k][2]}
  IN  IF hits = {} THEN -1
      ELSE (CHOOSE k \in hits : \A j \in hits : k <= j) - 1

scaleFactorSwapped(kind) == IF kind = "plasticity" THEN vcScaleFactor ELSE ccScaleFactor

\* The scale factor the loop applies to a sweep of a run of this kind
scaleFactorOf(kind) == IF kind = "plasticity" THEN ccScaleFactor ELSE vcScaleFactor

\* The series builder the loop calls for a sweep of a run of this kind
builderOf(kind) == IF kind = "plasticity" THEN "setCClampSeries" ELSE "setVClampSeries"

\* One pass of the series loop: the pair built for the sweep, or the exception
buildPair(s) ==
  LET run == runLookup(runInds, s)
  IN  IF run < 0 \/ run >= Len(runs) \/ run >= Len(runUnits)
      THEN [raised |-> "IndexError"]
      ELSE LET kind == At(runs, run)
               input == [startTime |-> sweepStartTimes(s),
                         data |-> Scale(values(s), scaleFactorOf(kind)),
                         condition |-> kind,
                         stimState |-> At(sweepStates, s),
                         unit |-> At(runUnits, run),
                         sweepOrder |-> <<s + 1, At(sweepIDs, s)>>]
           IN  IF builderOf(kind) = "setCClampSeries"
               THEN setCClampSeries(input)
               ELSE setVClampSeries(input)

BuildSeriesSkippingFailures ==
  /\ pc = "series"
  /\ sweep < nSweeps
  /\ LET b == buildPair(sweep)
     IN  IF b.raised # "none"
         THEN UNCHANGED <<stimulusObjects, responseObjects>>
         ELSE /\ stimulusObjects' = Append(stimulusObjects, b.stimulus)
              /\ responseObjects' = Append(responseObjects, b.response)
  /\ sweep' = sweep + 1
  /\ pc' = IF sweep + 1 = nSweeps THEN "recordings" ELSE "series"
  /\ UNCHANGED <<sweepLabels, sweepStates, sweepIDs, error, runs, runUnits, runInds,
                 runStartTimes, runDataPoints, nRuns, rowIndices, rowIndicesSimRec,
                 simRecs, seqRecs, repetitions, conditions, iRun, stimulusType,
                 seqGroupCount, written>>

\* One pass of the series loop; an exception ends the script
BuildSeries ==
  /\ pc = "series"
  /\ sweep < nSweeps
  /\ LET b == buildPair(sweep)
     IN  IF b.raised # "none"
         THEN /\ pc' = "error"
              /\ error' = b.raised
              /\ UNCHANGED <<sweep, stimulusObjects, responseObjects>>
         ELSE /\ stimulusObjects' = Append(stimulusObjects, b.stimulus)
              /\ responseObjects' = Append(responseObjects, b.response)
              /\ sweep' = sweep + 1
              /\ pc' = IF sweep + 1 = nSweeps THEN "recordings" ELSE "series"
              /\ error' = error
  /\ UNCHANGED <<sweepLabels, sweepStates, sweepIDs, runs, runUnits, runInds,
                 runStartTimes, runDataPoints, nRuns, rowIndices, rowIndicesSimRec,
                 simRecs, seqRecs, repetitions, conditions, iRun, stimulusType,
                 seqGroupCount, written>>

\* ---------------------------------------------------------------- tables
\* The intracellular recordings table: one row per sweep, in sweep order
AddIntracellularRecordings ==
  /\ pc = "recordings"
  /\ rowIndices' = [k \in 1..nSweeps |-> k - 1]
  /\ pc' = "simultaneous"
  /\ UNCHANGED <<sweepLabels, sweepStates, sweepIDs, error, runs, runUnits, runInds,
                 runStartTimes, runDataPoints, nRuns, sweep, stimulusObjects,
                 responseObjects, rowIndicesSimRec, simRecs, seqRecs, repetitions,
                 conditions, iRun, stimulusType, seqGroupCount, written>>

\* The simultaneous recordings table: one row per sweep, holding that sweep's
\* intracellular recording
AddSimultaneousRecordings ==
  /\ pc = "simultaneous"
  /\ simRecs' = [k \in 1..nSweeps |->
                   [recordings |-> <<rowIndices[k]>>, id |-> sweepIDs[k],
                    simultaneous_recording_tag |-> "noSimultaneousRecs"]]
  /\ rowIndicesSimRec' = [k \in 1..nSweeps |-> k - 1]
  /\ seqGroupCount' = 0
  /\ iRun' = 0
  /\ pc' = "sequential"
  /\ UNCHANGED <<sweepLabels, sweepStates, sweepIDs, error, runs, runUnits, runInds,
                 runStartTimes, runDataPoints, nRuns, sweep, stimulusObjects,
                 responseObjects, rowIndices, seqRecs, repetitions, conditions,
                 stimulusType, written>>

\* inds = np.arange(runInds[iRun,0], runInds[iRun,-1], 1): the sweep indices
\* from the run's first up to, not including, its last
runSweepInds(row) == [k \in 1..(IF row[2] > row[1] THEN row[2] - row[1] ELSE 0) |->
                        row[1] + k - 1]

\* condStates = sweepStates[inds]
condStatesOf(row) == [k \in 1..Len(runSweepInds(row)) |-> At(sweepStates, runSweepInds(row)[k])]

\* np.unique: the distinct values, ascending
unique(a) == SetToSortedSeq(Range(a))

\* np.argwhere(condStates == state): the 0-based positions within condStates
argwhere(condStates, state) ==
  SetToSortedSeq({k - 1 : k \in {j \in 1..Len(condStates) : condStates[j] = state}})

\* The stimulus type after the if/elif chain: the variable keeps its value
\* ("unset" before its first assignment) when no branch matches
stimulusTypeOf(state, before) ==
  IF state = 0 THEN "light"
  ELSE IF state = 1 THEN "current"
  ELSE IF state = 2 THEN "combined"
  ELSE IF state = 9 THEN "noStim"
  ELSE before

\* The simultaneous recordings a sequential recording of the run references
seqRecMembers(condStates, state) ==
  [k \in 1..Len(argwhere(condStates, state)) |->
     At(rowIndicesSimRec, argwhere(condStates, state)[k])]

\* The inner loop over a run's distinct state codes, from the k-th on
RECURSIVE seqRecLoop(_, _, _, _)
seqRecLoop(condStates, uniq, k, acc) ==
  IF k > Len(uniq) THEN acc
  ELSE LET tag == stimulusTypeOf(uniq[k], acc.stimulusType)
       IN  IF tag = "unset" THEN [acc EXCEPT !.raised = "NameError"]
           ELSE seqRecLoop(condStates, uniq, k + 1,
                  [table |-> Append(acc.table,
                               [simultaneous_recordings |-> seqRecMembers(condStates, uniq[k]),
                                stimulus_type |-> tag,
                                id |-> acc.count]),
                   stimulusType |-> tag,
                   count |-> acc.count + 1,
                   raised |-> "none"])

\* One pass of the loop over runs of the sequential recordings table
AddSequentialRecordings ==
  /\ pc = "sequential"
  /\ iRun < nRuns
  /\ LET cs == condStatesOf(At(runInds, iRun))
         r == seqRecLoop(cs, unique(cs), 1,
                         [table |-> seqRecs, stimulusType |-> stimulusType,
                          count |-> seqGroupCount, raised |-> "none"])
     IN  /\ seqRecs' = r.table
         /\ stimulusType' = r.stimulusType
         /\ seqGroupCount' = r.count
         /\ IF r.raised # "none"
            THEN /\ pc' = "error" /\ error' = r.raised /\ iRun' = iRun
            ELSE /\ iRun' = iRun + 1
                 /\ pc' = IF iRun + 1 = nRuns THEN "repetitions" ELSE "sequential"
                 /\ error' = error
  /\ UNCHANGED <<sweepLabels, sweepStates, sweepIDs, runs, runUnits, runInds,
                 runStartTimes, runDataPoints, nRuns, sweep, stimulusObjects,
                 responseObjects, rowIndices, rowIndicesSimRec, simRecs, repetitions,
                 conditions, written>>

\* runInds = list([[1,2], 3, 4, 5, [6,7]]), each entry as np.array(.., ndmin=1)
groupRunInds == <<<<1, 2>>, <<3>>, <<4>>, <<5>>, <<6, 7>>>>

\* condInds = list([[1,5], [2,4], 3]), each entry as np.array(.., ndmin=1)
condInds == <<<<1, 5>>, <<2, 4>>, <<3>>>>
condTags == <<"baselineStim", "noStim", "plasticityInduction">>

\* The repetitions table: one row per run, from the hard-coded list; the
\* list has no entry for a sixth run
AddRepetitions ==
  /\ pc = "repetitions"
  /\ runInds' = groupRunInds
  /\ LET n == IF nRuns <= Len(groupRunInds) THEN nRuns ELSE Len(groupRunInds)
     IN  repetitions' = [k \in 1..n |->
                           [sequential_recordings |-> groupRunInds[k], id |-> k - 1]]
  /\ IF nRuns > Len(groupRunInds)
     THEN pc' = "error" /\ error' = "IndexError"
     ELSE pc' = "conditions" /\ error' = error
  /\ UNCHANGED <<sweepLabels, sweepStates, sweepIDs, runs, runUnits,
                 runStartTimes, runDataPoints, nRuns, sweep, stimulusObjects,
                 responseObjects, rowIndices, rowIndicesSimRec, simRecs, seqRecs,
                 conditions, iRun, stimulusType, seqGroupCount, written>>

\* The experimental conditions table, from the hard-coded list, and its tags
AddExperimentalConditions ==
  /\ pc = "conditions"
  /\ conditions' = [k \in 1..Len(condInds) |->
                      [repetitions |-> condInds[k], id |-> k - 1, tag |-> condTags[k]]]
  /\ pc' = "write"
  /\ UNCHANGED <<sweepLabels, sweepStates, sweepIDs, error, runs, runUnits, runInds,
                 runStartTimes, runDataPoints, nRuns, sweep, stimulusObjects,
                 responseObjects, rowIndices, rowIndicesSimRec, simRecs, seqRecs,
                 repetitions, iRun, stimulusType, seqGroupCount, written>>

\* The image is attached and the file written
WriteFile ==
  /\ pc = "write"
  /\ written' = TRUE
  /\ pc' = "done"
  /\ UNCHANGED <<sweepLabels, sweepStates, sweepIDs, error, runs, runUnits, runInds,
                 runStartTimes, runDataPoints, nRuns, sweep, stimulusObjects,
                 responseObjects, rowIndices, rowIndicesSimRec, simRecs, seqRecs,
                 repetitions, conditions, iRun, stimulusType, seqGroupCount>>

Next ==
  \/ SegmentRuns
  \/ BuildSeries
  \/ AddIntracellularRecordings
  \/ AddSimultaneousRecordings
  \/ AddSequentialRecordings
  \/ AddRepetitions
  \/ AddExperimentalConditions
  \/ WriteFile

Spec == Init /\ [][Next]_vars

\* ================================================================ claims
MappedLabels == {"b", "0", "1"}
MappedStates == {0, 1, 2, 9}

WellFormedLabels == Range(sweepLabels) \subseteq MappedLabels

\* The positions at which runInds holds the [first, last] rows of the runs
RunRangesKnown ==
  pc \in {"series", "recordings", "simultaneous", "sequential", "repetitions"}

RowsHolding(s) == {k \in 1..Len(runInds) : runInds[k][1] <= s /\ s <= runInds[k][2]}

\* C1: for the labels 1,1,b,0,0,1 segmentation yields exactly four runs,
\* baseline(0-1), break(2-2), plasticity(3-4), baseline(5-5): the last sweep,
\* whose label differs from its predecessor's, forms its own run.
C1_ScenarioYieldsFourRuns ==
  (pc = "series" /\ sweepLabels = ScenarioSession.labels) =>
    /\ runs = <<"baseline", "break", "plasticity", "baseline">>
    /\ runInds = <<<<0, 1>>, <<2, 2>>, <<3, 4>>, <<5, 5>>>>

\* C2: for labels over {b,0,1} the inclusive run ranges partition the sweep
\* indices 0..N-1: the first range starts at 0, each next range starts right
\* after the previous one ends, the last ends at N-1, no range is empty, and
\* so every sweep lies in exactly one range, which the run lookup finds and
\* for which a kind and a unit are recorded.
C2_RunRangesPartitionSweeps ==
  (RunRangesKnown /\ WellFormedLabels) =>
    /\ Len(runInds) >= 1
    /\ runInds[1][1] = 0
    /\ runInds[Len(runInds)][2] = nSweeps - 1
    /\ \A k \in 1..Len(runInds) : runInds[k][1] <= runInds[k][2]
    /\ \A k \in 1..(Len(runInds) - 1) : runInds[k + 1][1] = runInds[k][2] + 1
    /\ \A s \in 0..(nSweeps - 1) :
         /\ Cardinality(RowsHolding(s)) = 1
         /\ runLookup(runInds, s) + 1 \in RowsHolding(s)
         /\ runLookup(runInds, s) < Len(runs)
         /\ runLookup(runInds, s) < Len(runUnits)

C2_Witness ==
  /\ pc = "sequential"
  /\ WellFormedLabels
  /\ Len(runInds) >= 3
  /\ \E k \in 1..Len(runInds) : runInds[k][1] = runInds[k][2]
  /\ \E k \in 1..Len(runInds) : runInds[k][1] < runInds[k][2]

\* C3: for labels over {b,0,1}, whatever the first label, any two consecutive
\* runs returned by getRuns have different kinds.
C3_ConsecutiveRunsDiffer ==
  (pc = "series" /\ WellFormedLabels) =>
    \A k \in 1..(Len(runs) - 1) : runs[k] # runs[k + 1]

\* A label change, as getRuns detects it, at a sweep whose label is unmapped
UnmappedBoundary ==
  \E s \in 1..(nSweeps - 2) :
    /\ At(sweepLabels, s) # At(sweepLabels, s - 1)
    /\ At(sweepLabels, s) \notin MappedLabels

\* C4: when a label change is detected at a sweep with an unmapped leading
\* character, segmentation ends in an error: the series loop is never entered,
\* and getRuns never returns more run start indices than kinds or units.
C4_UnmappedLabelIsFatal ==
  /\ UnmappedBoundary => pc \in {"getRuns", "error"}
  /\ pc = "series" => (Len(runInds) = Len(runs) /\ Len(runInds) = Len(runUnits))

\* C5: a run among whose state codes the tagging loop meets one outside
\* {0,1,2,9} never completes, whatever the code's position among the run's
\* codes: the conversion aborts at that run, so that no run the loop has
\* passed (those before iRun) holds such a code.
C5_UnmappedStateAborts ==
  pc \in {"sequential", "repetitions"} =>
    \A r \in 0..(iRun - 1) :
      Range(condStatesOf(At(runInds, r))) \subseteq MappedStates

\* The number of sequential recordings the runs before run r produced
RECURSIVE seqRowsBefore(_)
seqRowsBefore(r) ==
  IF r = 0 THEN 0
  ELSE seqRowsBefore(r - 1) + Len(unique(condStatesOf(At(runInds, r - 1))))

\* The sequential recordings of run r, each as the set of the sweep positions
\* of the simultaneous recordings it references
seqRecSweepsOfRun(r) ==
  [k \in 1..(seqRowsBefore(r + 1) - seqRowsBefore(r)) |->
     {simRecs[m + 1].recordings[1] :
        m \in Range(seqRecs[seqRowsBefore(r) + k].simultaneous_recordings)}]

\* C6: once every run is processed, the sequential recordings of each run
\* reference sweeps (a) within the run's range, (b) pairwise disjoint,
\* (c) together the whole range, each holding exactly the run's sweeps of one
\* state code.
C6_SequentialRecordingsPartitionRun ==
  pc = "repetitions" =>
    \A r \in 0..(nRuns - 1) :
      LET first == At(runInds, r)[1]
          last == At(runInds, r)[2]
          rows == seqRecSweepsOfRun(r)
      IN  /\ \A k \in 1..Len(rows) : rows[k] \subseteq first..last
          /\ \A j, k \in 1..Len(rows) : j # k => rows[j] \cap rows[k] = {}
          /\ UNION Range(rows) = first..last
          /\ \A k \in 1..Len(rows) :
               \E c \in Range(sweepStates) :
                 rows[k] = {s \in first..last : At(sweepStates, s) = c}

\* The rows of a table that reference the 0-based row index i through field f
Referrers(table, f, i) == {k \in 1..Len(table) : i \in Range(f[k])}

\* C7: after a conversion without error the grouping is a strict forest: each
\* simultaneous recording is in exactly one sequential recording, each
\* sequential recording in exactly one repetition, each repetition in exactly
\* one condition, and every referenced row exists.
C7_GroupingIsStrictForest ==
  pc = "done" =>
    LET seqMembers == [k \in 1..Len(seqRecs) |-> seqRecs[k].simultaneous_recordings]
        repMembers == [k \in 1..Len(repetitions) |-> repetitions[k].sequential_recordings]
        condMembers == [k \in 1..Len(conditions) |-> conditions[k].repetitions]
    IN  /\ \A i \in 0..(Len(simRecs) - 1) :
             Cardinality(Referrers(seqRecs, seqMembers, i)) = 1
        /\ \A i \in 0..(Len(seqRecs) - 1) :
             Cardinality(Referrers(repetitions, repMembers, i)) = 1
        /\ \A i \in 0..(Len(repetitions) - 1) :
             Cardinality(Referrers(conditions, condMembers, i)) = 1
        /\ \A k \in 1..Len(repetitions) :
             Range(repMembers[k]) \subseteq 0..(Len(seqRecs) - 1)
        /\ \A k \in 1..Len(conditions) :
             Range(condMembers[k]) \subseteq 0..(Len(repetitions) - 1)

\* A number below 1000 written with exactly three digits; longer ones as is
ZeroPad3(n) ==
  IF n >= 1000 THEN str(n)
  ELSE Digit(n \div 100) \o Digit((n \div 10) % 10) \o Digit(n % 10)

\* C8 (as stated): both series of every sweep are named PatchClampSeries
\* followed by the sweep's id, the value stored as sweepNumber, zero-padded
\* to three digits.
C8_NameFromSweepId ==
  \A k \in 1..Len(stimulusObjects) :
    /\ stimulusObjects[k].sweep_number = sweepIDs[k]
    /\ responseObjects[k].sweep_number = sweepIDs[k]
    /\ stimulusObjects[k].name = "PatchClampSeries" \o ZeroPad3(sweepIDs[k])
    /\ responseObjects[k].name = "PatchClampSeries" \o ZeroPad3(sweepIDs[k])

\* C8 (amended): both series of every sweep are named PatchClampSeries
\* followed by the sweep's 1-based position in the session, zero-padded to
\* at least three digits; the sweep's id is stored as sweepNumber only.
C8_NameFromSweepPosition ==
  \A k \in 1..Len(stimulusObjects) :
    /\ stimulusObjects[k].sweep_number = sweepIDs[k]
    /\ responseObjects[k].sweep_number = sweepIDs[k]
    /\ stimulusObjects[k].name = "PatchClampSeries" \o ZeroPad3(k)
    /\ responseObjects[k].name = "PatchClampSeries" \o ZeroPad3(k)

C8_Witness ==
  /\ sweepIDs[1] # 1
  /\ \E i, j, k \in 1..Len(stimulusObjects) :
       /\ i < 10 /\ 10 <= j /\ j < 100 /\ 100 <= k
       /\ stimulusObjects[i].name = "PatchClampSeries001"
       /\ stimulusObjects[j].name = "PatchClampSeries042"
       /\ responseObjects[k].name = "PatchClampSeries107"
  /\ \E k \in 100..Len(stimulusObjects) :
       stimulusObjects[k].type = "VoltageClampStimulusSeries"
  /\ \E k \in 100..Len(stimulusObjects) :
       stimulusObjects[k].type = "CurrentClampStimulusSeries"

\* C9: the series loop never fails at a sweep of a baseline run whose state
\* code is one of 0, 1, 2, 9 (so a state-9 sweep of a baseline run reaches
\* hierarchy assembly).
C9_BaselineSweepBuilds ==
  (pc = "error" /\ sweep < nSweeps) =>
    LET run == runLookup(runInds, sweep)
    IN  ~ /\ run >= 0 /\ run < Len(runs)
          /\ At(runs, run) = "baseline"
          /\ At(sweepStates, sweep) \in MappedStates

\* The kind of the run the lookup finds for the sweep at 0-based position s
KindOfSweep(s) == At(runs, runLookup(runInds, s))

IsVoltageClampPair(k) ==
  /\ stimulusObjects[k].type = "VoltageClampStimulusSeries"
  /\ responseObjects[k].type = "VoltageClampSeries"

IsCurrentClampPair(k) ==
  /\ stimulusObjects[k].type = "CurrentClampStimulusSeries"
  /\ responseObjects[k].type = "CurrentClampSeries"

ScaledOnceBy(k, f) ==
  /\ stimulusObjects[k].data = Scale(values(k - 1), f)
  /\ responseObjects[k].data = Scale(values(k - 1), f)

\* C10 (as stated): sweeps of plasticity runs are scaled by vcScaleFactor and
\* built as a voltage-clamp pair, sweeps of baseline and break runs are scaled
\* by ccScaleFactor and built as a current-clamp pair.
C10_PlasticityIsVoltageClamp ==
  RunRangesKnown =>
    \A k \in 1..Len(stimulusObjects) :
      IF KindOfSweep(k - 1) = "plasticity"
      THEN ScaledOnceBy(k, vcScaleFactor) /\ IsVoltageClampPair(k)
      ELSE ScaledOnceBy(k, ccScaleFactor) /\ IsCurrentClampPair(k)

\* C10 (amended): the scale factor and the clamp type of every constructed
\* pair are determined by the kind of the sweep's run alone: sweeps of
\* plasticity runs are scaled by ccScaleFactor and built as a current-clamp
\* pair, sweeps of baseline and break runs are scaled by vcScaleFactor and
\* built as a voltage-clamp pair; one factor is applied, once.
C10_PlasticityIsCurrentClamp ==
  RunRangesKnown =>
    \A k \in 1..Len(stimulusObjects) :
      IF KindOfSweep(k - 1) = "plasticity"
      THEN ScaledOnceBy(k, ccScaleFactor) /\ IsCurrentClampPair(k)
      ELSE ScaledOnceBy(k, vcScaleFactor) /\ IsVoltageClampPair(k)

C10_Witness ==
  /\ pc = "recordings"
  /\ \E i, j, k \in 1..Len(stimulusObjects) :
       /\ KindOfSweep(i - 1) = "baseline" /\ IsVoltageClampPair(i)
       /\ KindOfSweep(j - 1) = "break" /\ IsVoltageClampPair(j)
       /\ KindOfSweep(k - 1) = "plasticity" /\ IsCurrentClampPair(k)

\* Segmentation, the series pair of every sweep and the four grouping tables
\* are all in place, and nothing was raised on the way
AllStepsCompleted ==
  /\ error = "none"
  /\ Len(runs) >= 1 /\ nRuns = Len(runs)
  /\ sweep = nSweeps
  /\ Len(stimulusObjects) = nSweeps /\ Len(responseObjects) = nSweeps
  /\ Len(rowIndices) = nSweeps
  /\ Len(simRecs) = nSweeps
  /\ iRun = nRuns
  /\ Len(repetitions) = nRuns
  /\ Len(conditions) = Len(condInds)

\* C11: the conversion is all-or-nothing: the output file exists only when
\* segmentation, the series pair of every sweep and all four grouping tables
\* were completed without an exception; an exception in any step stops the
\* script at that step (no further step can be taken) with no file written.
C11_AllOrNothing ==
  /\ written => (pc = "done" /\ AllStepsCompleted)
  /\ pc = "error" => (error # "none" /\ ~written /\ ~ENABLED Next)
  /\ error # "none" => pc = "error"

C11_Witness ==
  /\ written
  /\ pc = "done"
  /\ nRuns >= 3
  /\ nSweeps >= 6
====
